---- MODULE Spec2Model ----
(***************************************************************************)
(* A model of alto's ALC layer (src/src/alc.rs): the reentrant pause guard *)
(* (SoftPauseLock), loading and the version check, the open operations and *)
(* the device family's teardown, the string queries, the enumeration-table *)
(* parser, the context attribute list, the device operations new_context,  *)
(* soft_reset and connected, and the extension cache.                      *)
(*                                                                         *)
(* The native library is the environment.  A native call either succeeds   *)
(* or raises an error code, which it stores in the error slot of the       *)
(* device it was called on (or of the null device); alcGetError reads a    *)
(* slot and resets it to ALC_NO_ERROR.                                     *)
(***************************************************************************)
EXTENDS Integers, Sequences, FiniteSets, TLC

\* ------------------------------------------------------------------------
\* Bounds of the model
\* ------------------------------------------------------------------------

\* Threads sharing one Device.
NumThreads == 2

\* Guards one thread may hold at the same time.
MaxGuards == 2

Threads == 1 .. NumThreads

\* ------------------------------------------------------------------------
\* Native error codes
\* ------------------------------------------------------------------------

ALC_NO_ERROR == "ALC_NO_ERROR"

\* The codes a failing native call may raise.
ErrCodes == {"ALC_INVALID_DEVICE", "ALC_INVALID_VALUE"}

\* Alto::get_error: Ok(()) on ALC_NO_ERROR, Err(from_alc(e)) otherwise.
GetErrorIsOk(e) == e = ALC_NO_ERROR

VARIABLES
    \* ---- pause guard (Device, SoftPauseLock) ----
    pauseExt,     \* outcome of resolving ALC_SOFT_pause_device on the device
    pause_rc,     \* Device.pause_rc; -1 stands for usize::MAX after a wrap
    devPaused,    \* whether the native device is paused
    devErr,       \* the device's native error slot
    pc,           \* pc[t]: where thread t is inside soft_pause / drop
    guards,       \* guards[t]: SoftPauseLock values thread t holds
    polled,       \* polled[t]: the code t's error poll returned (the local e)
    last,         \* the operation completed most recently, and its outcome
    native,       \* history of the native pause/resume calls
    diag,         \* whether a diagnostic line was written to stderr
    \* ---- Alto: load, open, device teardown ----
    major,        \* ALC_MAJOR_VERSION as the native library reports it
    minor,        \* ALC_MINOR_VERSION as the native library reports it
    alto,         \* how far load_default / load got, and its result
    nullErr,      \* the null device's native error slot
    enumAllExt,   \* outcome of resolving ALC_ENUMERATE_ALL_EXT (null cache)
    loopbackExt,  \* outcome of resolving ALC_SOFT_loopback (null cache)
    apc,          \* where the caller is inside an Alto operation or a drop
    call,         \* the locals of the operation in progress or just completed
    ret,          \* what the operation completed most recently returned
    dev,          \* dev[h]: native handle h and the value that owns it
    closeDiag,    \* whether a drop wrote its diagnostic line to stderr
    \* ---- enumeration parser (Alto::parse_enum_spec) ----
    entries,      \* the strings the native library put in the table
    table,        \* the bytes at the pointer: the table, then what follows it
    scan,         \* the loop index i
    ppc,          \* "scan" inside the loop, "done" once specs is returned
    specs,        \* the sequence parse_enum_spec returns
    maxRead,      \* the highest offset read so far (-1: none)
    \* ---- context attribute list (Device::make_attrs_vec) ----
    attrs,        \* the Option<ContextAttrs> argument
    hrtfExt,      \* outcome of resolving ALC_SOFT_HRTF on the device
    atpc,         \* "start", then "built" once make_attrs_vec returned
    attrsRes,     \* what make_attrs_vec returned
    \* ---- device operations (Device::new_context, soft_reset, connected) ----
    ctxHrtf,      \* outcome of resolving ALC_SOFT_HRTF on the device
    discExt,      \* outcome of resolving ALC_EXT_DISCONNECT on the device
    ctxErr,       \* the device's native error slot
    linkUp,       \* whether the native device is still connected
    cpc,          \* cpc[t]: where thread t is inside a device operation
    ccall,        \* ccall[t]: the locals of thread t's operation
    clast,        \* the device operation completed most recently
    sawFalse,     \* whether connected() has returned Ok(false) so far
    \* ---- extension cache (Device.exts, Device::is_extension_present) ----
    cache,        \* cache[x]: the memoized outcome of extension x, if any
    firstSeen,    \* firstSeen[x]: what the first lookup of x returned
    lastSeen      \* the lookup completed most recently

pauseVars == <<pauseExt, pause_rc, devPaused, devErr, pc, guards, polled, last, native, diag>>

altoVars == <<major, minor, alto, nullErr, enumAllExt, loopbackExt, apc, call, ret, dev, closeDiag>>

parseVars == <<entries, table, scan, ppc, specs, maxRead>>

attrsVars == <<attrs, hrtfExt, atpc, attrsRes>>

ctxVars == <<ctxHrtf, discExt, ctxErr, linkUp, cpc, ccall, clast, sawFalse>>

extVars == <<cache, firstSeen, lastSeen>>

vars == <<pauseVars, altoVars, parseVars, attrsVars, ctxVars, extVars>>

\* What the pause guard's steps leave alone.
notPause == <<altoVars, parseVars, attrsVars, ctxVars, extVars>>

\* What Alto's steps leave alone.
notAlto == <<pauseVars, parseVars, attrsVars, ctxVars, extVars>>

\* What the parser's steps leave alone.
notParse == <<pauseVars, altoVars, attrsVars, ctxVars, extVars>>

\* What make_attrs_vec leaves alone.
notAttrs == <<pauseVars, altoVars, parseVars, ctxVars, extVars>>

\* What the device operations leave alone.
notCtx == <<pauseVars, altoVars, parseVars, attrsVars, extVars>>

\* What the extension cache leaves alone.
notExt == <<pauseVars, altoVars, parseVars, attrsVars, ctxVars>>

\* ------------------------------------------------------------------------
\* Pause guard
\* ------------------------------------------------------------------------

\* The extension either does not resolve, or resolves with each entry point
\* resolved or not on its own.
PauseExtOutcomes ==
    { e \in [ok : BOOLEAN, alcDevicePauseSOFT : BOOLEAN, alcDeviceResumeSOFT : BOOLEAN] :
        ~e.ok => (~e.alcDevicePauseSOFT /\ ~e.alcDeviceResumeSOFT) }

NoResult == [thread |-> 0, kind |-> "none", code |-> ALC_NO_ERROR]

Outcome(t, k, e) == [thread |-> t, kind |-> k, code |-> e]

\* Device as Alto::open builds it (pause_rc: AtomicUsize::new(0)).
InitPause ==
    /\ pauseExt \in PauseExtOutcomes
    /\ pause_rc = 0
    /\ devPaused = FALSE
    /\ devErr = ALC_NO_ERROR
    /\ pc = [t \in Threads |-> "idle"]
    /\ guards = [t \in Threads |-> 0]
    /\ polled = [t \in Threads |-> ALC_NO_ERROR]
    /\ last = NoResult
    /\ native = [called |-> FALSE, failed |-> FALSE, raised |-> ALC_NO_ERROR]
    /\ diag = FALSE

\* dev.exts.ALC_SOFT_pause_device()?.alcDevicePauseSOFT?
ResolvePauseFn(ext) == ext.ok /\ ext.alcDevicePauseSOFT

\* self.0.exts.ALC_SOFT_pause_device().unwrap().alcDeviceResumeSOFT.unwrap()
ResolveResumeFn(ext) == ext.ok /\ ext.alcDeviceResumeSOFT

\* A construction that does not count itself.
FetchAddForgotten(rc) == rc

\* pause_rc.fetch_add(1): the new value
FetchAdd(rc) == rc + 1

\* pause_rc.fetch_sub(1): the new value (-1 is the wrapped usize::MAX)
FetchSub(rc) == rc - 1

\* if old == 0 { adps(dev.dev) ... }
NeedsPause(old) == old = 0

\* The resume test applied to the decremented value instead of the old one.
NeedsResumeOnNewValue(old) == old = 0

\* if old == 1 { alcDeviceResumeSOFT(dev) ... }
NeedsResume(old) == old = 1

\* A failed pause that returns the error without undoing its increment.
RollbackForgotten(rc) == rc

\* The counter after the rollback of a failed pause.
Rollback(rc) == FetchSub(rc)

RECURSIVE GuardsUpTo(_)
GuardsUpTo(n) == IF n = 0 THEN 0 ELSE guards[n] + GuardsUpTo(n - 1)

\* SoftPauseLock values constructed and not yet dropped.
LiveGuards == GuardsUpTo(NumThreads)

AllIdle == \A t \in Threads : pc[t] \in {"idle", "panicked"}

\* SoftPauseLock::new up to its first native call.
SoftPause(t) ==
    /\ pc[t] = "idle"
    /\ guards[t] < MaxGuards
    /\ IF ~ResolvePauseFn(pauseExt)
       THEN /\ last' = Outcome(t, "err_ext", ALC_NO_ERROR)
            /\ UNCHANGED <<pause_rc, pc, guards>>
       ELSE /\ pause_rc' = FetchAdd(pause_rc)
            /\ IF NeedsPause(pause_rc)
               THEN /\ pc' = [pc EXCEPT ![t] = "new_pause"]
                    /\ UNCHANGED <<guards, last>>
               ELSE /\ guards' = [guards EXCEPT ![t] = @ + 1]
                    /\ last' = Outcome(t, "ok", ALC_NO_ERROR)
                    /\ UNCHANGED pc
    /\ UNCHANGED <<pauseExt, devPaused, devErr, polled, native, diag>>
    /\ UNCHANGED notPause

\* unsafe { adps(dev.dev) }: the call pauses the device.
NativePauseOk(t) ==
    /\ pc[t] = "new_pause"
    /\ devPaused' = TRUE
    /\ native' = [native EXCEPT !.called = TRUE]
    /\ pc' = [pc EXCEPT ![t] = "new_poll"]
    /\ UNCHANGED <<pauseExt, pause_rc, devErr, guards, polled, last, diag>>
    /\ UNCHANGED notPause

\* unsafe { adps(dev.dev) }: the call fails and raises an error code.
NativePauseFail(t) ==
    /\ pc[t] = "new_pause"
    /\ \E e \in ErrCodes :
         /\ devErr' = e
         /\ native' = [called |-> TRUE, failed |-> TRUE, raised |-> e]
    /\ pc' = [pc EXCEPT ![t] = "new_poll"]
    /\ UNCHANGED <<pauseExt, pause_rc, devPaused, guards, polled, last, diag>>
    /\ UNCHANGED notPause

\* if let Err(e) = dev.alto.get_error(dev.dev) { ... } Ok(SoftPauseLock(dev))
PausePoll(t) ==
    /\ pc[t] = "new_poll"
    /\ devErr' = ALC_NO_ERROR
    /\ polled' = [polled EXCEPT ![t] = devErr]
    /\ IF GetErrorIsOk(devErr)
       THEN /\ guards' = [guards EXCEPT ![t] = @ + 1]
            /\ last' = Outcome(t, "ok", ALC_NO_ERROR)
            /\ pc' = [pc EXCEPT ![t] = "idle"]
       ELSE /\ pc' = [pc EXCEPT ![t] = "new_rollback"]
            /\ UNCHANGED <<guards, last>>
    /\ UNCHANGED <<pauseExt, pause_rc, devPaused, native, diag>>
    /\ UNCHANGED notPause

\* dev.pause_rc.fetch_sub(1, Ordering::SeqCst); return Err(e);
PauseRollback(t) ==
    /\ pc[t] = "new_rollback"
    /\ pause_rc' = Rollback(pause_rc)
    /\ last' = Outcome(t, "err_native", polled[t])
    /\ polled' = [polled EXCEPT ![t] = ALC_NO_ERROR]
    /\ pc' = [pc EXCEPT ![t] = "idle"]
    /\ UNCHANGED <<pauseExt, devPaused, devErr, guards, native, diag>>
    /\ UNCHANGED notPause

\* Drop for SoftPauseLock up to its native call.
DropGuard(t) ==
    /\ pc[t] = "idle"
    /\ guards[t] > 0
    /\ guards' = [guards EXCEPT ![t] = @ - 1]
    /\ pause_rc' = FetchSub(pause_rc)
    /\ IF NeedsResume(pause_rc)
       THEN /\ pc' = [pc EXCEPT ![t] = "drop_resume"]
            /\ UNCHANGED last
       ELSE /\ last' = Outcome(t, "dropped", ALC_NO_ERROR)
            /\ UNCHANGED pc
    /\ UNCHANGED <<pauseExt, devPaused, devErr, polled, native, diag>>
    /\ UNCHANGED notPause

\* ...alcDeviceResumeSOFT.unwrap(): the entry point did not resolve, the
\* unwrap panics inside drop.
ResumeUnwrapPanic(t) ==
    /\ pc[t] = "drop_resume"
    /\ ~ResolveResumeFn(pauseExt)
    /\ pc' = [pc EXCEPT ![t] = "panicked"]
    /\ last' = Outcome(t, "panic", ALC_NO_ERROR)
    /\ UNCHANGED <<pauseExt, pause_rc, devPaused, devErr, guards, polled, native, diag>>
    /\ UNCHANGED notPause

\* alcDeviceResumeSOFT(self.0.dev): the call resumes the device.
NativeResumeOk(t) ==
    /\ pc[t] = "drop_resume"
    /\ ResolveResumeFn(pauseExt)
    /\ devPaused' = FALSE
    /\ native' = [native EXCEPT !.called = TRUE]
    /\ pc' = [pc EXCEPT ![t] = "drop_poll"]
    /\ UNCHANGED <<pauseExt, pause_rc, devErr, guards, polled, last, diag>>
    /\ UNCHANGED notPause

\* alcDeviceResumeSOFT(self.0.dev): the call fails and raises an error code.
NativeResumeFail(t) ==
    /\ pc[t] = "drop_resume"
    /\ ResolveResumeFn(pauseExt)
    /\ \E e \in ErrCodes :
         /\ devErr' = e
         /\ native' = [called |-> TRUE, failed |-> TRUE, raised |-> e]
    /\ pc' = [pc EXCEPT ![t] = "drop_poll"]
    /\ UNCHANGED <<pauseExt, pause_rc, devPaused, guards, polled, last, diag>>
    /\ UNCHANGED notPause

\* if let Err(_) = self.0.alto.get_error(self.0.dev) { writeln!(stderr, ..) }
ResumePoll(t) ==
    /\ pc[t] = "drop_poll"
    /\ devErr' = ALC_NO_ERROR
    /\ diag' = (diag \/ ~GetErrorIsOk(devErr))
    /\ last' = Outcome(t, "dropped", devErr)
    /\ pc' = [pc EXCEPT ![t] = "idle"]
    /\ UNCHANGED <<pauseExt, pause_rc, devPaused, guards, polled, native>>
    /\ UNCHANGED notPause

PauseStep(t) ==
    \/ SoftPause(t)
    \/ NativePauseOk(t)
    \/ NativePauseFail(t)
    \/ PausePoll(t)
    \/ PauseRollback(t)
    \/ DropGuard(t)
    \/ ResumeUnwrapPanic(t)
    \/ NativeResumeOk(t)
    \/ NativeResumeFail(t)
    \/ ResumePoll(t)

\* Threads run soft_pause and drop concurrently on one Device.
NextPause == \E t \in Threads : PauseStep(t)

\* One operation at a time: a thread starts or continues an operation only
\* while no other thread is inside one.
Alone(t) == \A u \in Threads \ {t} : pc[u] \in {"idle", "panicked"}

NextPauseSeq ==
    \E t \in Threads :
        \/ Alone(t) /\ SoftPause(t)
        \/ Alone(t) /\ NativePauseOk(t)
        \/ Alone(t) /\ NativePauseFail(t)
        \/ Alone(t) /\ PausePoll(t)
        \/ Alone(t) /\ PauseRollback(t)
        \/ Alone(t) /\ DropGuard(t)
        \/ Alone(t) /\ ResumeUnwrapPanic(t)
        \/ Alone(t) /\ NativeResumeOk(t)
        \/ Alone(t) /\ NativeResumeFail(t)
        \/ Alone(t) /\ ResumePoll(t)

\* The state of the pause group while another part of the model runs.
PauseUnused ==
    /\ pauseExt = [ok |-> FALSE, alcDevicePauseSOFT |-> FALSE, alcDeviceResumeSOFT |-> FALSE]
    /\ pause_rc = 0
    /\ devPaused = FALSE
    /\ devErr = ALC_NO_ERROR
    /\ pc = [t \in Threads |-> "idle"]
    /\ guards = [t \in Threads |-> 0]
    /\ polled = [t \in Threads |-> ALC_NO_ERROR]
    /\ last = NoResult
    /\ native = [called |-> FALSE, failed |-> FALSE, raised |-> ALC_NO_ERROR]
    /\ diag = FALSE

\* ------------------------------------------------------------------------
\* Alto: load and the version check, open, teardown of the device family
\* ------------------------------------------------------------------------

\* The largest major and minor version numbers the native library reports.
MaxMajor == 2

MaxMinor == 3

\* Native device handles the library hands out.
MaxOpens == 2

\* ptr::null_mut()
NULL == 0

Handles == 1 .. MaxOpens

\* A specifier the platform recognizes, and one it does not.
Specifiers == {"known", "unknown"}

OpenOps == {"open", "open_loopback", "open_capture"}

\* The operations that query a global string property.
QueryOps == {"default_output", "default_capture", "enumerate_outputs", "enumerate_captures"}

KindOf(op) ==
    CASE op = "open" -> "Device"
      [] op = "open_loopback" -> "LoopbackDevice"
      [] op = "open_capture" -> "CaptureDevice"

\* ALC_ENUMERATE_ALL_EXT: unresolved, or resolved with each constant
\* resolved or not on its own.
EnumAllOutcomes ==
    { e \in [ok : BOOLEAN, ALC_DEFAULT_ALL_DEVICES_SPECIFIER : BOOLEAN,
             ALC_ALL_DEVICES_SPECIFIER : BOOLEAN] :
        ~e.ok => (~e.ALC_DEFAULT_ALL_DEVICES_SPECIFIER /\ ~e.ALC_ALL_DEVICES_SPECIFIER) }

\* ALC_SOFT_loopback: unresolved, or resolved with its open entry point
\* resolved or not.
LoopbackOutcomes ==
    { e \in [ok : BOOLEAN, alcLoopbackOpenDeviceSOFT : BOOLEAN] :
        ~e.ok => ~e.alcLoopbackOpenDeviceSOFT }

\* AltoError values.
AlcUnsupportedVersion == [error |-> "AlcUnsupportedVersion", code |-> ALC_NO_ERROR]

AlcInvalidDevice == [error |-> "AlcInvalidDevice", code |-> ALC_NO_ERROR]

ExtensionNotPresent == [error |-> "ExtensionNotPresent", code |-> ALC_NO_ERROR]

\* e => Err(AltoError::from_alc(e))
FromAlc(e) == [error |-> "from_alc", code |-> e]

NoError == [error |-> "none", code |-> ALC_NO_ERROR]

\* The locals of an operation: the specifier argument, the constant an
\* alcGetString query was made with, the specifier in use, the handle the
\* native open returned, the code the last poll returned.
NoCall ==
    [op |-> "none", arg |-> "none", query |-> "none", spec |-> "none", dev |-> NULL,
     polled |-> ALC_NO_ERROR, native |-> FALSE]

NoRet == [ok |-> FALSE, err |-> NoError]

Ok == [ok |-> TRUE, err |-> NoError]

Err(e) == [ok |-> FALSE, err |-> e]

\* A handle the library has not handed out yet.
Unissued == [nat |-> "unissued", kind |-> "none", value |-> "none", closes |-> 0, err |-> ALC_NO_ERROR]

\* The constant an operation passes to alcGetString: for the two output
\* queries the enumerate-all one when the extension resolves ("unresolved"
\* when the extension resolves and the constant does not, where ? returns
\* the error) and the standard one when it does not; for the two capture
\* queries always the capture constant.
QueryConstant(op, ext) ==
    CASE op = "default_output" ->
           IF ext.ok
           THEN (IF ext.ALC_DEFAULT_ALL_DEVICES_SPECIFIER
                 THEN "ALC_DEFAULT_ALL_DEVICES_SPECIFIER" ELSE "unresolved")
           ELSE "ALC_DEFAULT_DEVICE_SPECIFIER"
      [] op = "enumerate_outputs" ->
           IF ext.ok
           THEN (IF ext.ALC_ALL_DEVICES_SPECIFIER
                 THEN "ALC_ALL_DEVICES_SPECIFIER" ELSE "unresolved")
           ELSE "ALC_DEVICE_SPECIFIER"
      [] op = "default_capture" -> "ALC_CAPTURE_DEFAULT_DEVICE_SPECIFIER"
      [] op = "enumerate_captures" -> "ALC_CAPTURE_DEVICE_SPECIFIER"

\* The specifier the default behind a constant names.
DefaultSpecifier(q) ==
    IF q = "ALC_CAPTURE_DEFAULT_DEVICE_SPECIFIER" THEN "default capture" ELSE "default output"

\* The query an open operation without a specifier makes: all three call
\* self.default_output()?.
DefaultQueryOf(op) == "default_output"

\* A check that accepts every version from 1.1 on, 2.x included.
VersionAtLeast_1_1(maj, min) == (maj = 1 /\ min >= 1) \/ maj > 1

\* A check that looks at the minor version only.
VersionMinorOnly(maj, min) == min >= 1

\* if major == 1 && minor >= 1 { Ok(self) } else { Err(AlcUnsupportedVersion) }
VersionSupported(maj, min) == maj = 1 /\ min >= 1

\* An open that returns whatever handle the native call gave.
OpenResultUnchecked(e, d) == IF GetErrorIsOk(e) THEN Ok ELSE Err(FromAlc(e))

\* self.get_error(ptr::null_mut())?;
\* if dev == ptr::null_mut() { Err(AlcInvalidDevice) } else { Ok(..) }
OpenResult(e, d) ==
    IF ~GetErrorIsOk(e) THEN Err(FromAlc(e))
    ELSE IF d = NULL THEN Err(AlcInvalidDevice)
    ELSE Ok

Issued == { h \in Handles : dev[h].nat # "unissued" }

\* The handle the native library hands out next.
FreshHandle == Cardinality(Issued) + 1

\* Nothing is loaded yet.
InitAlto ==
    /\ major \in 0 .. MaxMajor
    /\ minor \in 0 .. MaxMinor
    /\ alto = "unloaded"
    /\ nullErr = ALC_NO_ERROR
    /\ enumAllExt \in EnumAllOutcomes
    /\ loopbackExt \in LoopbackOutcomes
    /\ apc = "idle"
    /\ call = NoCall
    /\ ret = NoRet
    /\ dev = [h \in {NULL} \cup Handles |-> Unissued]
    /\ closeDiag = FALSE

\* sys::AlApi::load_default()? / sys::AlApi::load(path)?: the library loads.
LoadApi ==
    /\ alto = "unloaded"
    /\ alto' = "loaded"
    /\ UNCHANGED <<major, minor, nullErr, enumAllExt, loopbackExt, apc, call, ret, dev, closeDiag>>
    /\ UNCHANGED notAlto

\* sys::AlApi::load_default()? / sys::AlApi::load(path)?: the loader fails.
LoadApiFails ==
    /\ alto = "unloaded"
    /\ alto' = "err_load"
    /\ UNCHANGED <<major, minor, nullErr, enumAllExt, loopbackExt, apc, call, ret, dev, closeDiag>>
    /\ UNCHANGED notAlto

\* Alto::check_version: the two alcGetIntegerv queries (no error poll
\* follows them, so a code they raise stays in the null device's slot) and
\* the comparison.
CheckVersion ==
    /\ alto = "loaded"
    /\ \E e \in {ALC_NO_ERROR} \cup ErrCodes : nullErr' = e
    /\ alto' = IF VersionSupported(major, minor) THEN "ok" ELSE "err_version"
    /\ ret' = IF VersionSupported(major, minor) THEN Ok ELSE Err(AlcUnsupportedVersion)
    /\ UNCHANGED <<major, minor, enumAllExt, loopbackExt, apc, call, dev, closeDiag>>
    /\ UNCHANGED notAlto

\* Alto::open / open_loopback / open_capture up to the choice of the
\* specifier.
OpenBegin(op, sp) ==
    /\ apc = "idle"
    /\ alto = "ok"
    /\ Cardinality(Issued) < MaxOpens
    /\ IF op = "open_loopback" /\ ~loopbackExt.ok
       THEN /\ call' = [NoCall EXCEPT !.op = op]
            /\ ret' = Err(ExtensionNotPresent)
            /\ UNCHANGED apc
       ELSE /\ call' = [NoCall EXCEPT !.op = op, !.arg = sp, !.spec = sp]
            /\ apc' = IF sp = "none" THEN "default_output" ELSE "open_native"
            /\ UNCHANGED ret
    /\ UNCHANGED <<major, minor, alto, nullErr, enumAllExt, loopbackExt, dev, closeDiag>>
    /\ UNCHANGED notAlto

\* A public query operation starts.
QueryBegin(op) ==
    /\ apc = "idle"
    /\ alto = "ok"
    /\ call' = [NoCall EXCEPT !.op = op]
    /\ apc' = "default_output"
    /\ UNCHANGED <<major, minor, alto, nullErr, enumAllExt, loopbackExt, ret, dev, closeDiag>>
    /\ UNCHANGED notAlto

\* The query operation in progress: the one called, or the one an open
\* operation without a specifier calls.
Querying == IF call.op \in OpenOps THEN DefaultQueryOf(call.op) ELSE call.op

\* Alto::default_output (also as the open operations call it),
\* default_capture, enumerate_outputs, enumerate_captures up to the poll:
\* the choice of the constant, then alcGetString.
DefaultOutputQuery ==
    /\ apc = "default_output"
    /\ call' = [call EXCEPT !.query = QueryConstant(Querying, enumAllExt)]
    /\ IF QueryConstant(Querying, enumAllExt) = "unresolved"
       THEN /\ ret' = Err(ExtensionNotPresent)
            /\ apc' = "idle"
            /\ UNCHANGED nullErr
       ELSE /\ \E e \in {nullErr} \cup ErrCodes : nullErr' = e
            /\ apc' = "default_poll"
            /\ UNCHANGED ret
    /\ UNCHANGED <<major, minor, alto, enumAllExt, loopbackExt, dev, closeDiag>>
    /\ UNCHANGED notAlto

\* self.get_error(ptr::null_mut()).map(|_| spec.to_owned()) and its like
\* in the other queries, and the ? of an open operation on it.
DefaultOutputPoll ==
    /\ apc = "default_poll"
    /\ nullErr' = ALC_NO_ERROR
    /\ IF GetErrorIsOk(nullErr)
       THEN /\ call' = [call EXCEPT !.spec = DefaultSpecifier(call.query)]
            /\ IF call.op \in OpenOps
               THEN apc' = "open_native" /\ UNCHANGED ret
               ELSE apc' = "idle" /\ ret' = Ok
       ELSE /\ call' = [call EXCEPT !.polled = nullErr]
            /\ ret' = Err(FromAlc(nullErr))
            /\ apc' = "idle"
    /\ UNCHANGED <<major, minor, alto, enumAllExt, loopbackExt, dev, closeDiag>>
    /\ UNCHANGED notAlto

\* sl.alcLoopbackOpenDeviceSOFT?: the entry point did not resolve.
LoopbackOpenFnMissing ==
    /\ apc = "open_native"
    /\ call.op = "open_loopback"
    /\ ~loopbackExt.alcLoopbackOpenDeviceSOFT
    /\ ret' = Err(ExtensionNotPresent)
    /\ apc' = "idle"
    /\ UNCHANGED <<major, minor, alto, nullErr, enumAllExt, loopbackExt, call, dev, closeDiag>>
    /\ UNCHANGED notAlto

OpenFnResolved == call.op = "open_loopback" => loopbackExt.alcLoopbackOpenDeviceSOFT

\* alcOpenDevice / alcLoopbackOpenDeviceSOFT / alcCaptureOpenDevice hands
\* out a device handle.
NativeOpenOk ==
    /\ apc = "open_native"
    /\ OpenFnResolved
    /\ call.spec # "unknown"
    /\ dev' = [dev EXCEPT ![FreshHandle] = [Unissued EXCEPT !.nat = "open"]]
    /\ call' = [call EXCEPT !.dev = FreshHandle, !.native = TRUE]
    /\ apc' = "open_poll"
    /\ UNCHANGED <<major, minor, alto, nullErr, enumAllExt, loopbackExt, ret, closeDiag>>
    /\ UNCHANGED notAlto

\* The native open call fails: it returns a null handle, and raises an
\* error code or leaves the error slot as it is.
NativeOpenFails ==
    /\ apc = "open_native"
    /\ OpenFnResolved
    /\ \E e \in {nullErr} \cup ErrCodes : nullErr' = e
    /\ call' = [call EXCEPT !.dev = NULL, !.native = TRUE]
    /\ apc' = "open_poll"
    /\ UNCHANGED <<major, minor, alto, enumAllExt, loopbackExt, ret, dev, closeDiag>>
    /\ UNCHANGED notAlto

\* self.get_error(ptr::null_mut())?; the null test; the device value.
OpenPoll ==
    /\ apc = "open_poll"
    /\ nullErr' = ALC_NO_ERROR
    /\ call' = [call EXCEPT !.polled = nullErr]
    /\ ret' = OpenResult(nullErr, call.dev)
    /\ dev' = IF OpenResult(nullErr, call.dev).ok
              THEN [dev EXCEPT ![call.dev].kind = KindOf(call.op), ![call.dev].value = "live"]
              ELSE dev
    /\ apc' = "idle"
    /\ UNCHANGED <<major, minor, alto, enumAllExt, loopbackExt, closeDiag>>
    /\ UNCHANGED notAlto

\* Drop for Device / Drop for LoopbackDevice: alcCloseDevice closes the
\* handle.
DropClose(h) ==
    /\ apc = "idle"
    /\ dev[h].value = "live"
    /\ dev[h].kind \in {"Device", "LoopbackDevice"}
    /\ dev' = [dev EXCEPT ![h].nat = "closed", ![h].closes = @ + 1, ![h].value = "dropping"]
    /\ call' = [NoCall EXCEPT !.op = "drop", !.dev = h, !.native = TRUE]
    /\ apc' = "drop_poll"
    /\ UNCHANGED <<major, minor, alto, nullErr, enumAllExt, loopbackExt, ret, closeDiag>>
    /\ UNCHANGED notAlto

\* Drop for Device / Drop for LoopbackDevice: alcCloseDevice fails and
\* raises an error code.
DropCloseFails(h) ==
    /\ apc = "idle"
    /\ dev[h].value = "live"
    /\ dev[h].kind \in {"Device", "LoopbackDevice"}
    /\ \E e \in ErrCodes :
         dev' = [dev EXCEPT ![h].closes = @ + 1, ![h].value = "dropping", ![h].err = e]
    /\ call' = [NoCall EXCEPT !.op = "drop", !.dev = h, !.native = TRUE]
    /\ apc' = "drop_poll"
    /\ UNCHANGED <<major, minor, alto, nullErr, enumAllExt, loopbackExt, ret, closeDiag>>
    /\ UNCHANGED notAlto

\* if let Err(_) = self.alto.get_error(self.dev) { writeln!(stderr, ..) }
DropPoll ==
    /\ apc = "drop_poll"
    /\ closeDiag' = (closeDiag \/ ~GetErrorIsOk(dev[call.dev].err))
    /\ call' = [call EXCEPT !.polled = dev[call.dev].err]
    /\ dev' = [dev EXCEPT ![call.dev].err = ALC_NO_ERROR, ![call.dev].value = "released"]
    /\ ret' = Ok
    /\ apc' = "idle"
    /\ UNCHANGED <<major, minor, alto, nullErr, enumAllExt, loopbackExt>>
    /\ UNCHANGED notAlto

\* A CaptureDevice goes out of scope: the type has no Drop implementation,
\* so its fields are released and no native call is made.
DropCapture(h) ==
    /\ apc = "idle"
    /\ dev[h].value = "live"
    /\ dev[h].kind = "CaptureDevice"
    /\ dev' = [dev EXCEPT ![h].value = "released"]
    /\ call' = [NoCall EXCEPT !.op = "drop", !.dev = h]
    /\ ret' = Ok
    /\ UNCHANGED <<major, minor, alto, nullErr, enumAllExt, loopbackExt, apc, closeDiag>>
    /\ UNCHANGED notAlto

NextAlto ==
    \/ LoadApi
    \/ LoadApiFails
    \/ CheckVersion
    \/ \E op \in OpenOps, sp \in Specifiers \cup {"none"} : OpenBegin(op, sp)
    \/ \E op \in QueryOps : QueryBegin(op)
    \/ DefaultOutputQuery
    \/ DefaultOutputPoll
    \/ LoopbackOpenFnMissing
    \/ NativeOpenOk
    \/ NativeOpenFails
    \/ OpenPoll
    \/ \E h \in {NULL} \cup Handles : DropClose(h)
    \/ \E h \in {NULL} \cup Handles : DropCloseFails(h)
    \/ DropPoll
    \/ \E h \in {NULL} \cup Handles : DropCapture(h)

\* The state of the Alto group while another part of the model runs.
AltoUnused ==
    /\ major = 1
    /\ minor = 1
    /\ alto = "ok"
    /\ nullErr = ALC_NO_ERROR
    /\ enumAllExt = [ok |-> FALSE, ALC_DEFAULT_ALL_DEVICES_SPECIFIER |-> FALSE,
                     ALC_ALL_DEVICES_SPECIFIER |-> FALSE]
    /\ loopbackExt = [ok |-> FALSE, alcLoopbackOpenDeviceSOFT |-> FALSE]
    /\ apc = "idle"
    /\ call = NoCall
    /\ ret = NoRet
    /\ dev = [h \in {NULL} \cup Handles |-> Unissued]
    /\ closeDiag = FALSE

\* ------------------------------------------------------------------------
\* Enumeration parser (Alto::parse_enum_spec)
\* ------------------------------------------------------------------------

\* Strings in one enumeration table.
MaxStrings == 2

\* Bytes in one string of the table.
MaxStrLen == 2

\* The bytes 'A', 'B', 'C' the strings are made of.
Alphabet == {65, 66, 67}

\* Memory that follows the table's terminator.
Paddings == {<<>>, <<0>>, <<65>>}

SeqsUpTo(S, n) == UNION { [1 .. k -> S] : k \in 0 .. n }

\* Non-empty strings without an embedded NUL.
Strings == SeqsUpTo(Alphabet, MaxStrLen) \ {<<>>}

RECURSIVE Terminated(_)
\* Every string followed by its NUL.
Terminated(ss) ==
    IF ss = <<>> THEN <<>>
    ELSE Head(ss) \o <<0>> \o Terminated(Tail(ss))

\* The native table: the NUL-terminated strings, then one more NUL; the
\* table of no strings is the two bytes {0, 0}.
EncodeTable(ss) == IF ss = <<>> THEN <<0, 0>> ELSE Terminated(ss) \o <<0>>

\* ptr::read(spec.offset(i)), with the table at offsets 0 .. Len - 1
ReadByte(mem, i) == mem[i + 1]

\* if ptr::read(spec.offset(i)) == 0 && ptr::read(spec.offset(i + 1)) == 0
AtTerminator(mem, i) == ReadByte(mem, i) = 0 /\ ReadByte(mem, i + 1) = 0

\* A test that also looks at the byte after the pair.
HighestReadLookahead(mem, i) == i + 2

\* The highest offset the test at i reads (&& evaluates its right side only
\* when the left side holds).
HighestRead(mem, i) == IF ReadByte(mem, i) = 0 THEN i + 1 ELSE i

RECURSIVE SplitOnNul(_)
\* slice.split(|c| *c == 0): the runs between the NULs; a slice without a
\* NUL, the empty one included, is one run.
SplitOnNul(s) ==
    IF \A j \in 1 .. Len(s) : s[j] # 0 THEN <<s>>
    ELSE LET j == CHOOSE j \in 1 .. Len(s) :
                      s[j] = 0 /\ \A m \in 1 .. (j - 1) : s[m] # 0
         IN <<SubSeq(s, 1, j - 1)>> \o SplitOnNul(SubSeq(s, j + 1, Len(s)))

\* slice::from_raw_parts(spec, i).split(..).map(|d| CString::new(d).unwrap())
ParsedSpecs(mem, i) == SplitOnNul(SubSeq(mem, 1, i))

\* The native library has written a table of some strings at the pointer.
InitParse ==
    /\ entries \in SeqsUpTo(Strings, MaxStrings)
    /\ \E pad \in Paddings : table = EncodeTable(entries) \o pad
    /\ scan = 0
    /\ ppc = "scan"
    /\ specs = <<>>
    /\ maxRead = -1

\* One turn of the loop that does not find the terminator: i += 1.
ScanNext ==
    /\ ppc = "scan"
    /\ ~AtTerminator(table, scan)
    /\ maxRead' = IF HighestRead(table, scan) > maxRead THEN HighestRead(table, scan) ELSE maxRead
    /\ scan' = scan + 1
    /\ UNCHANGED <<entries, table, ppc, specs>>
    /\ UNCHANGED notParse

\* The turn of the loop that finds the terminator: break, split, Ok(specs).
ScanBreak ==
    /\ ppc = "scan"
    /\ AtTerminator(table, scan)
    /\ maxRead' = IF HighestRead(table, scan) > maxRead THEN HighestRead(table, scan) ELSE maxRead
    /\ specs' = ParsedSpecs(table, scan)
    /\ ppc' = "done"
    /\ UNCHANGED <<entries, table, scan>>
    /\ UNCHANGED notParse

NextParse ==
    \/ ScanNext
    \/ ScanBreak

\* The state of the parser while another part of the model runs.
ParseUnused ==
    /\ entries = <<>>
    /\ table = <<0, 0>>
    /\ scan = 0
    /\ ppc = "scan"
    /\ specs = <<>>
    /\ maxRead = -1

\* ------------------------------------------------------------------------
\* Context attribute list (Device::make_attrs_vec)
\* ------------------------------------------------------------------------

ALC_FALSE == 0

ALC_TRUE == 1

ALC_FREQUENCY == 4103

ALC_REFRESH == 4104

ALC_MONO_SOURCES == 4112

ALC_STEREO_SOURCES == 4113

\* The value the HRTF extension resolves its ALC_HRTF_SOFT constant to.
ALC_HRTF_SOFT == 6546

\* The value the HRTF extension resolves its ALC_HRTF_ID_SOFT constant to.
ALC_HRTF_ID_SOFT == 6550

None == [some |-> FALSE, v |-> 0]

Some(x) == [some |-> TRUE, v |-> x]

\* attrs = None
NoAttrs ==
    [ some |-> FALSE, frequency |-> None, refresh |-> None, mono_sources |-> None,
      stereo_sources |-> None, soft_hrtf |-> None, soft_hrtf_id |-> None ]

\* Option<ContextAttrs>: None, or the six optional fields.
AttrsInputs ==
    [ some : {TRUE},
      frequency : {None, Some(44100), Some(48000)},
      refresh : {None, Some(60)},
      mono_sources : {None, Some(255)},
      stereo_sources : {None, Some(1)},
      soft_hrtf : {None, Some(ALC_TRUE), Some(ALC_FALSE)},
      soft_hrtf_id : {None, Some(2)} ]
    \cup { NoAttrs }

\* ALC_SOFT_HRTF on the device: unresolved, or resolved with each key
\* constant and the reset entry point resolved or not on its own.
HrtfOutcomes ==
    { e \in [ok : BOOLEAN, ALC_HRTF_SOFT : BOOLEAN, ALC_HRTF_ID_SOFT : BOOLEAN,
             alcResetDeviceSOFT : BOOLEAN] :
        ~e.ok => (~e.ALC_HRTF_SOFT /\ ~e.ALC_HRTF_ID_SOFT /\ ~e.alcResetDeviceSOFT) }

HrtfUnresolved ==
    [ok |-> FALSE, ALC_HRTF_SOFT |-> FALSE, ALC_HRTF_ID_SOFT |-> FALSE,
     alcResetDeviceSOFT |-> FALSE]

\* if let Some(x) = field { attrs_vec.extend(&[key, x]); }
Extend(vec, key, field) == IF field.some THEN vec \o <<key, field.v>> ELSE vec

\* A list built with the mono and stereo hints in each other's place.
MakeAttrsVecSwapped(a, ext) ==
    IF ~a.some THEN [ok |-> TRUE, vec |-> <<>>]
    ELSE LET v1 == Extend(<<>>, ALC_FREQUENCY, a.frequency)
             v2 == Extend(v1, ALC_REFRESH, a.refresh)
             v3 == Extend(v2, ALC_STEREO_SOURCES, a.stereo_sources)
             v4 == Extend(v3, ALC_MONO_SOURCES, a.mono_sources)
             v5 == IF ext.ok THEN Extend(v4, ALC_HRTF_SOFT, a.soft_hrtf) ELSE v4
             v6 == IF ext.ok THEN Extend(v5, ALC_HRTF_ID_SOFT, a.soft_hrtf_id) ELSE v5
         IN IF ext.ok /\ ( (a.soft_hrtf.some /\ ~ext.ALC_HRTF_SOFT)
                           \/ (a.soft_hrtf_id.some /\ ~ext.ALC_HRTF_ID_SOFT) )
            THEN [ok |-> FALSE, vec |-> <<>>]
            ELSE [ok |-> TRUE, vec |-> v6 \o <<0>>]

\* Device::make_attrs_vec.  Without attrs the vector stays empty; with them
\* the pairs are pushed in turn, ash.ALC_HRTF_SOFT? and ash.ALC_HRTF_ID_SOFT?
\* return the error of a key constant that did not resolve, and 0 is pushed
\* last.
MakeAttrsVec(a, ext) ==
    IF ~a.some THEN [ok |-> TRUE, vec |-> <<>>]
    ELSE LET v1 == Extend(<<>>, ALC_FREQUENCY, a.frequency)
             v2 == Extend(v1, ALC_REFRESH, a.refresh)
             v3 == Extend(v2, ALC_MONO_SOURCES, a.mono_sources)
             v4 == Extend(v3, ALC_STEREO_SOURCES, a.stereo_sources)
             v5 == IF ext.ok THEN Extend(v4, ALC_HRTF_SOFT, a.soft_hrtf) ELSE v4
             v6 == IF ext.ok THEN Extend(v5, ALC_HRTF_ID_SOFT, a.soft_hrtf_id) ELSE v5
         IN IF ext.ok /\ ( (a.soft_hrtf.some /\ ~ext.ALC_HRTF_SOFT)
                           \/ (a.soft_hrtf_id.some /\ ~ext.ALC_HRTF_ID_SOFT) )
            THEN [ok |-> FALSE, vec |-> <<>>]
            ELSE [ok |-> TRUE, vec |-> v6 \o <<0>>]

\* A Device with some resolution of the HRTF extension is about to build
\* the list for some attributes.
InitAttrs ==
    /\ attrs \in AttrsInputs
    /\ hrtfExt \in HrtfOutcomes
    /\ atpc = "start"
    /\ attrsRes = [ok |-> FALSE, vec |-> <<>>]

\* let attrs_vec = self.make_attrs_vec(attrs);
MakeAttrs ==
    /\ atpc = "start"
    /\ attrsRes' = MakeAttrsVec(attrs, hrtfExt)
    /\ atpc' = "built"
    /\ UNCHANGED <<attrs, hrtfExt>>
    /\ UNCHANGED notAttrs

NextAttrs == MakeAttrs

\* The state of the attribute list while another part of the model runs.
AttrsUnused ==
    /\ attrs = NoAttrs
    /\ hrtfExt = HrtfUnresolved
    /\ atpc = "start"
    /\ attrsRes = [ok |-> FALSE, vec |-> <<>>]

\* ------------------------------------------------------------------------
\* Device operations: new_context, soft_reset, connected
\* ------------------------------------------------------------------------

\* ALC_EXT_DISCONNECT on the device: unresolved, or resolved with its
\* ALC_CONNECTED constant resolved or not.
DiscOutcomes ==
    { e \in [ok : BOOLEAN, ALC_CONNECTED : BOOLEAN] : ~e.ok => ~e.ALC_CONNECTED }

\* The attribute arguments the operations are called with: none, a
\* frequency, an HRTF request.
CtxAttrsInputs ==
    { NoAttrs,
      [NoAttrs EXCEPT !.some = TRUE, !.frequency = Some(44100)],
      [NoAttrs EXCEPT !.some = TRUE, !.soft_hrtf = Some(ALC_TRUE)] }

\* The locals of a device operation: whether make_attrs_vec returned Ok, the
\* pointer handed to the native call and the list behind it, what the
\* native call read through the pointer, the integer alcGetIntegerv wrote,
\* and the error code the operation's own native call raised.
NoCtxCall ==
    [op |-> "none", built |-> TRUE, ptr |-> "none", list |-> <<>>, read |-> "none",
     connected |-> 0, raised |-> ALC_NO_ERROR]

NoCtxResult == [op |-> "none", built |-> TRUE, ret |-> NoRet, val |-> FALSE]

CtxResult(o, b, r, v) == [op |-> o, built |-> b, ret |-> r, val |-> v]

\* The device's error slot after a native call that raised e: the slot
\* keeps its content when the call raised nothing.
Raise(slot, e) == IF e = ALC_NO_ERROR THEN slot ELSE e

\* attrs_vec.map(|a| a.as_slice().as_ptr()).unwrap_or(ptr::null()): an Err
\* becomes the null pointer; for an Ok the closure takes the Vec by value,
\* returns the address of its buffer and drops the Vec, so the pointer
\* handed to the native call addresses a freed buffer.
AttrsPtr(res) == IF res.ok THEN "dangling" ELSE "null"

\* What the native call can find behind the pointer: nothing to read for a
\* null pointer; behind a dangling one the list it once held, if it had one
\* and the freed buffer was not reused, or anything else.
ReadOutcomes(c) ==
    IF c.ptr = "null" THEN {"defaults"}
    ELSE IF c.list = <<>> THEN {"garbage"}
    ELSE {"list", "garbage"}

\* self.exts.ALC_SOFT_HRTF()?.alcResetDeviceSOFT?
ResetFnResolved(ext) == ext.ok /\ ext.alcResetDeviceSOFT

\* self.exts.ALC_EXT_DISCONNECT()?.ALC_CONNECTED?
ConnectedKeyResolved(ext) == ext.ok /\ ext.ALC_CONNECTED

\* A comparison with the sense inverted.
ConnectedValueInverted(v) == v # ALC_TRUE

\* connected == sys::ALC_TRUE as sys::ALCint
ConnectedValue(v) == v = ALC_TRUE

InitCtx ==
    /\ ctxHrtf \in HrtfOutcomes
    /\ discExt \in DiscOutcomes
    /\ ctxErr = ALC_NO_ERROR
    /\ linkUp = TRUE
    /\ cpc = [t \in Threads |-> "idle"]
    /\ ccall = [t \in Threads |-> NoCtxCall]
    /\ clast = NoCtxResult
    /\ sawFalse = FALSE

\* Device::new_context up to the native call: make_attrs_vec and the
\* pointer passed to alcCreateContext.  ctx_lock is not taken.
NewContextBegin(t, a) ==
    /\ cpc[t] = "idle"
    /\ ccall' = [ccall EXCEPT ![t] =
                    [NoCtxCall EXCEPT !.op = "new_context",
                                      !.built = MakeAttrsVec(a, ctxHrtf).ok,
                                      !.ptr = AttrsPtr(MakeAttrsVec(a, ctxHrtf)),
                                      !.list = MakeAttrsVec(a, ctxHrtf).vec]]
    /\ cpc' = [cpc EXCEPT ![t] = "create"]
    /\ UNCHANGED <<ctxHrtf, discExt, ctxErr, linkUp, clast, sawFalse>>
    /\ UNCHANGED notCtx

\* Device::soft_reset up to the native call: the entry point, then
\* make_attrs_vec and the pointer passed to alcResetDeviceSOFT.
SoftResetBegin(t, a) ==
    /\ cpc[t] = "idle"
    /\ IF ~ResetFnResolved(ctxHrtf)
       THEN /\ clast' = CtxResult("soft_reset", TRUE, Err(ExtensionNotPresent), FALSE)
            /\ UNCHANGED <<cpc, ccall>>
       ELSE /\ ccall' = [ccall EXCEPT ![t] =
                           [NoCtxCall EXCEPT !.op = "soft_reset",
                                             !.built = MakeAttrsVec(a, ctxHrtf).ok,
                                             !.ptr = AttrsPtr(MakeAttrsVec(a, ctxHrtf)),
                                             !.list = MakeAttrsVec(a, ctxHrtf).vec]]
            /\ cpc' = [cpc EXCEPT ![t] = "reset"]
            /\ UNCHANGED clast
    /\ UNCHANGED <<ctxHrtf, discExt, ctxErr, linkUp, sawFalse>>
    /\ UNCHANGED notCtx

\* alcCreateContext(self.dev, ptr) runs and returns; it may raise an error.
NativeCreateContext(t) ==
    /\ cpc[t] = "create"
    /\ \E r \in ReadOutcomes(ccall[t]), e \in {ALC_NO_ERROR} \cup ErrCodes :
          /\ ccall' = [ccall EXCEPT ![t].read = r, ![t].raised = e]
          /\ ctxErr' = Raise(ctxErr, e)
    /\ cpc' = [cpc EXCEPT ![t] = "poll"]
    /\ UNCHANGED <<ctxHrtf, discExt, linkUp, clast, sawFalse>>
    /\ UNCHANGED notCtx

\* ards(self.dev, ptr) runs and returns; it may raise an error.
NativeResetDevice(t) ==
    /\ cpc[t] = "reset"
    /\ \E r \in ReadOutcomes(ccall[t]), e \in {ALC_NO_ERROR} \cup ErrCodes :
          /\ ccall' = [ccall EXCEPT ![t].read = r, ![t].raised = e]
          /\ ctxErr' = Raise(ctxErr, e)
    /\ cpc' = [cpc EXCEPT ![t] = "poll"]
    /\ UNCHANGED <<ctxHrtf, discExt, linkUp, clast, sawFalse>>
    /\ UNCHANGED notCtx

\* self.alto.get_error(self.dev) and the value returned by new_context or
\* soft_reset.
DevicePoll(t) ==
    /\ cpc[t] = "poll"
    /\ ctxErr' = ALC_NO_ERROR
    /\ clast' = CtxResult(ccall[t].op, ccall[t].built,
                          IF GetErrorIsOk(ctxErr) THEN Ok ELSE Err(FromAlc(ctxErr)), FALSE)
    /\ ccall' = [ccall EXCEPT ![t] = NoCtxCall]
    /\ cpc' = [cpc EXCEPT ![t] = "idle"]
    /\ UNCHANGED <<ctxHrtf, discExt, linkUp, sawFalse>>
    /\ UNCHANGED notCtx

\* Device::connected up to the poll: the key constant, then alcGetIntegerv
\* writes the connection state into the local.
ConnectedQuery(t) ==
    /\ cpc[t] = "idle"
    /\ IF ~ConnectedKeyResolved(discExt)
       THEN /\ clast' = CtxResult("connected", TRUE, Err(ExtensionNotPresent), FALSE)
            /\ UNCHANGED <<cpc, ccall>>
       ELSE /\ ccall' = [ccall EXCEPT ![t] =
                           [NoCtxCall EXCEPT !.op = "connected",
                                             !.connected = IF linkUp THEN ALC_TRUE ELSE ALC_FALSE]]
            /\ cpc' = [cpc EXCEPT ![t] = "conn_poll"]
            /\ UNCHANGED clast
    /\ UNCHANGED <<ctxHrtf, discExt, ctxErr, linkUp, sawFalse>>
    /\ UNCHANGED notCtx

\* Device::connected: alcGetIntegerv fails, raises an error code and leaves
\* the local at its initial 0.
ConnectedQueryFails(t) ==
    /\ cpc[t] = "idle"
    /\ ConnectedKeyResolved(discExt)
    /\ \E e \in ErrCodes :
          /\ ctxErr' = Raise(ctxErr, e)
          /\ ccall' = [ccall EXCEPT ![t] =
                          [NoCtxCall EXCEPT !.op = "connected", !.raised = e]]
    /\ cpc' = [cpc EXCEPT ![t] = "conn_poll"]
    /\ UNCHANGED <<ctxHrtf, discExt, linkUp, clast, sawFalse>>
    /\ UNCHANGED notCtx

\* self.alto.get_error(self.dev).map(|_| connected == ALC_TRUE)
ConnectedPoll(t) ==
    /\ cpc[t] = "conn_poll"
    /\ ctxErr' = ALC_NO_ERROR
    /\ clast' = IF GetErrorIsOk(ctxErr)
                THEN CtxResult("connected", TRUE, Ok, ConnectedValue(ccall[t].connected))
                ELSE CtxResult("connected", TRUE, Err(FromAlc(ctxErr)), FALSE)
    /\ sawFalse' = (sawFalse \/ (GetErrorIsOk(ctxErr) /\ ~ConnectedValue(ccall[t].connected)))
    /\ ccall' = [ccall EXCEPT ![t] = NoCtxCall]
    /\ cpc' = [cpc EXCEPT ![t] = "idle"]
    /\ UNCHANGED <<ctxHrtf, discExt, linkUp>>
    /\ UNCHANGED notCtx

\* The device is unplugged; the native library does not reconnect a device
\* ("it will not become true again").
Disconnect ==
    /\ linkUp
    /\ linkUp' = FALSE
    /\ UNCHANGED <<ctxHrtf, discExt, ctxErr, cpc, ccall, clast, sawFalse>>
    /\ UNCHANGED notCtx

\* Threads run operations concurrently on one Device (Device is Sync).
NextCtx ==
    \/ \E t \in Threads, a \in CtxAttrsInputs : NewContextBegin(t, a)
    \/ \E t \in Threads, a \in CtxAttrsInputs : SoftResetBegin(t, a)
    \/ \E t \in Threads : NativeCreateContext(t)
    \/ \E t \in Threads : NativeResetDevice(t)
    \/ \E t \in Threads : DevicePoll(t)
    \/ \E t \in Threads : ConnectedQuery(t)
    \/ \E t \in Threads : ConnectedQueryFails(t)
    \/ \E t \in Threads : ConnectedPoll(t)
    \/ Disconnect

\* No other thread is inside a device operation.
CtxAlone(t) == \A u \in Threads \ {t} : cpc[u] = "idle"

\* The same operations, one at a time.
NextCtxSeq ==
    \/ \E t \in Threads, a \in CtxAttrsInputs : CtxAlone(t) /\ NewContextBegin(t, a)
    \/ \E t \in Threads, a \in CtxAttrsInputs : CtxAlone(t) /\ SoftResetBegin(t, a)
    \/ \E t \in Threads : CtxAlone(t) /\ NativeCreateContext(t)
    \/ \E t \in Threads : CtxAlone(t) /\ NativeResetDevice(t)
    \/ \E t \in Threads : CtxAlone(t) /\ DevicePoll(t)
    \/ \E t \in Threads : CtxAlone(t) /\ ConnectedQuery(t)
    \/ \E t \in Threads : CtxAlone(t) /\ ConnectedQueryFails(t)
    \/ \E t \in Threads : CtxAlone(t) /\ ConnectedPoll(t)
    \/ Disconnect

\* The state of the device operations while another part of the model runs.
CtxUnused ==
    /\ ctxHrtf = HrtfUnresolved
    /\ discExt = [ok |-> FALSE, ALC_CONNECTED |-> FALSE]
    /\ ctxErr = ALC_NO_ERROR
    /\ linkUp = TRUE
    /\ cpc = [t \in Threads |-> "idle"]
    /\ ccall = [t \in Threads |-> NoCtxCall]
    /\ clast = NoCtxResult
    /\ sawFalse = FALSE

\* ------------------------------------------------------------------------
\* Extension cache
\* ------------------------------------------------------------------------

\* ext::Alc
ExtIds == {"Dedicated", "Disconnect", "Efx", "SoftHrtf", "SoftPauseDevice"}

\* What a native resolution can answer: failure, or one of two different
\* sets of resolved pointers and constants.
ExtOutcomes == {"err", "resolved", "resolved_other"}

\* A lookup that resolves anew on every call.
LookupWithoutMemo(slot, fresh) == fresh

\* lookup(extension_id): the first call resolves natively and memoizes the
\* outcome, later calls return the memoized outcome.
Lookup(slot, fresh) == IF slot = "unset" THEN fresh ELSE slot

NoLookup == [ext |-> "none", outcome |-> "err", present |-> FALSE, again |-> FALSE]

\* A fresh cache, as ext::AlcCache::new builds it for a device.
InitExt ==
    /\ cache = [x \in ExtIds |-> "unset"]
    /\ firstSeen = [x \in ExtIds |-> "none"]
    /\ lastSeen = NoLookup

\* Device::is_extension_present(ext): self.exts.<ext>().is_ok()
IsExtensionPresent(x) ==
    /\ \E fresh \in ExtOutcomes :
         /\ cache' = [cache EXCEPT ![x] = Lookup(cache[x], fresh)]
         /\ lastSeen' = [ext |-> x, outcome |-> Lookup(cache[x], fresh),
                         present |-> Lookup(cache[x], fresh) # "err",
                         again |-> firstSeen[x] # "none"]
         /\ firstSeen' = IF firstSeen[x] = "none"
                         THEN [firstSeen EXCEPT ![x] = Lookup(cache[x], fresh)]
                         ELSE firstSeen
    /\ UNCHANGED notExt

NextExt == \E x \in ExtIds : IsExtensionPresent(x)

\* The state of the cache while another part of the model runs.
ExtUnused ==
    /\ cache = [x \in ExtIds |-> "unset"]
    /\ firstSeen = [x \in ExtIds |-> "none"]
    /\ lastSeen = NoLookup

\* ------------------------------------------------------------------------
\* Specifications
\* ------------------------------------------------------------------------

\* Threads constructing and dropping pause guards on one open Device.
InitPauseSpec ==
    /\ InitPause
    /\ AltoUnused
    /\ ParseUnused
    /\ AttrsUnused
    /\ CtxUnused
    /\ ExtUnused

SpecPause == InitPauseSpec /\ [][NextPause]_vars

\* The same operations, one at a time.
SpecPauseSeq == InitPauseSpec /\ [][NextPauseSeq]_vars

\* Loading, opening devices and releasing them.
InitAltoSpec ==
    /\ InitAlto
    /\ PauseUnused
    /\ ParseUnused
    /\ AttrsUnused
    /\ CtxUnused
    /\ ExtUnused

SpecAlto == InitAltoSpec /\ [][NextAlto]_vars

InitParseSpec ==
    /\ InitParse
    /\ PauseUnused
    /\ AltoUnused
    /\ AttrsUnused
    /\ CtxUnused
    /\ ExtUnused

\* parse_enum_spec run on a well-formed table.
SpecParse == InitParseSpec /\ [][NextParse]_vars

InitAttrsSpec ==
    /\ InitAttrs
    /\ PauseUnused
    /\ AltoUnused
    /\ ParseUnused
    /\ CtxUnused
    /\ ExtUnused

\* make_attrs_vec run on a Device.
SpecAttrs == InitAttrsSpec /\ [][NextAttrs]_vars

InitCtxSpec ==
    /\ InitCtx
    /\ PauseUnused
    /\ AltoUnused
    /\ ParseUnused
    /\ AttrsUnused
    /\ ExtUnused

\* Threads creating contexts, resetting and polling one open Device.
SpecCtx == InitCtxSpec /\ [][NextCtx]_vars

\* The same operations, one at a time.
SpecCtxSeq == InitCtxSpec /\ [][NextCtxSeq]_vars

InitExtSpec ==
    /\ InitExt
    /\ PauseUnused
    /\ AltoUnused
    /\ ParseUnused
    /\ AttrsUnused
    /\ CtxUnused

\* Lookups on one extension cache.
SpecExt == InitExtSpec /\ [][NextExt]_vars

\* ------------------------------------------------------------------------
\* Claims about the pause guard
\* ------------------------------------------------------------------------

PauseExtResolved == ResolvePauseFn(pauseExt) /\ ResolveResumeFn(pauseExt)

\* C1: with operations that do not overlap, the pause extension resolved and
\* the native calls succeeding, after each completed operation the device is
\* paused iff at least one guard is alive; the native pause is called only on
\* the 0->1 transition of the counter and the native resume only on 1->0.
C1_PausedIffGuardAlive ==
    /\ (AllIdle /\ PauseExtResolved /\ ~native.failed)
          => (devPaused <=> LiveGuards >= 1)
    /\ \A t \in Threads :
          /\ pc[t] = "new_pause" => (pause_rc = 1 /\ LiveGuards = 0)
          /\ pc[t] = "drop_resume" => (pause_rc = 0 /\ LiveGuards = 0)

\* Two guards were constructed and one of them has just been dropped: the
\* device is still paused.
C1_Witness ==
    /\ AllIdle /\ PauseExtResolved /\ ~native.failed
    /\ last.kind = "dropped"
    /\ LiveGuards = 1
    /\ devPaused

\* C2: under concurrent construction and destruction, with the extension
\* resolved and the native calls succeeding, no thread holds a guard while
\* the device is not paused and the device is not left paused when no guard
\* is outstanding.
C2_ConcurrentPausedIffGuards ==
    (PauseExtResolved /\ ~native.failed) =>
        /\ LiveGuards > 0 => devPaused
        /\ (AllIdle /\ LiveGuards = 0) => ~devPaused

\* C3: a construction whose pause fails returns the polled error, produces no
\* guard and leaves the counter where it was before the 0->1 transition;
\* when the pause entry point does not resolve the construction fails with
\* the counter untouched and no native call made.
C3_FailedPauseRollsBack ==
    /\ (AllIdle /\ last.kind = "err_native") =>
          /\ last.code \in ErrCodes
          /\ last.code = native.raised
          /\ pause_rc = 0
          /\ LiveGuards = 0
    /\ ~ResolvePauseFn(pauseExt) =>
          /\ last.kind \in {"none", "err_ext"}
          /\ pause_rc = 0
          /\ LiveGuards = 0
          /\ ~native.called

\* A construction has just failed on its native pause and was rolled back.
C3_Witness ==
    /\ AllIdle
    /\ last.kind = "err_native"
    /\ native.failed
    /\ pause_rc = 0

\* C5: dropping a guard never panics, whatever entry points of the pause
\* extension resolved.
C5_DropNeverPanics == \A t \in Threads : pc[t] # "panicked"

\* ------------------------------------------------------------------------
\* Claims about Alto and the device family
\* ------------------------------------------------------------------------

VersionChecked == alto \in {"ok", "err_version"}

\* C4: every device-family value that was opened has the native close call
\* made on its handle exactly once when it is released.
C4_ClosedExactlyOnce ==
    \A h \in Handles : dev[h].value = "released" => dev[h].closes = 1

\* C7 as stated: version 1.0 fails the check with the unsupported-version
\* error and nothing is opened; versions 1.1 and 2.3 pass it.
C7_Versions_1_1_And_2_3_Pass ==
    VersionChecked =>
        /\ (major = 1 /\ minor = 0) =>
              (alto = "err_version" /\ ret = Err(AlcUnsupportedVersion) /\ Issued = {})
        /\ (major = 1 /\ minor = 1) => alto = "ok"
        /\ (major = 2 /\ minor = 3) => alto = "ok"

\* C7 amended: version 1.0 fails the check with the unsupported-version
\* error and nothing is opened; version 1.1 passes; version 2.3 fails with
\* the unsupported-version error as well.
C7_Version_2_3_Rejected ==
    VersionChecked =>
        /\ (major = 1 /\ minor = 0) =>
              (alto = "err_version" /\ ret = Err(AlcUnsupportedVersion) /\ Issued = {})
        /\ (major = 1 /\ minor = 1) => alto = "ok"
        /\ (major = 2 /\ minor = 3) =>
              (alto = "err_version" /\ ret = Err(AlcUnsupportedVersion) /\ Issued = {})

\* The library reported 2.3 and the check has rejected it.
C7_Witness == major = 2 /\ minor = 3 /\ alto = "err_version"

\* C8: load succeeds iff the library reports major = 1 and minor >= 1; any
\* other pair yields the unsupported-version error and no Alto value, so
\* that nothing is ever opened.
C8_LoadIffMajor1MinorAtLeast1 ==
    /\ alto = "ok" => (major = 1 /\ minor >= 1)
    /\ alto = "err_version" =>
          (~(major = 1 /\ minor >= 1) /\ ret = Err(AlcUnsupportedVersion))
    /\ alto # "ok" => (Issued = {} /\ apc = "idle" /\ call = NoCall)

\* A library reporting 1.2 was loaded and a device was opened from it.
C8_Witness ==
    /\ alto = "ok" /\ major = 1 /\ minor = 2
    /\ \E h \in Handles : dev[h].value = "live"

\* C9: the open operations never return a value wrapping a null handle; a
\* null handle with no error code polled yields the invalid-device error,
\* and an unrecognized specifier yields an error.
C9_OpenNeverWrapsNull ==
    /\ dev[NULL].value = "none"
    /\ (apc = "idle" /\ call.op \in OpenOps) =>
          /\ (call.native /\ ret.ok) => call.dev # NULL
          /\ (call.native /\ call.dev = NULL) => ~ret.ok
          /\ (call.native /\ call.dev = NULL /\ call.polled = ALC_NO_ERROR)
                => ret = Err(AlcInvalidDevice)
          /\ call.spec = "unknown" => ~ret.ok

\* The native open returned null for an unrecognized specifier, the poll
\* reported no error, and the operation returned the invalid-device error.
C9_Witness ==
    /\ apc = "idle" /\ call.op \in OpenOps /\ call.native
    /\ call.spec = "unknown"
    /\ call.dev = NULL /\ call.polled = ALC_NO_ERROR
    /\ ret = Err(AlcInvalidDevice)

\* ------------------------------------------------------------------------
\* Claims about the enumeration parser and the attribute list
\* ------------------------------------------------------------------------

\* C6: for a table of k >= 0 non-empty strings, each NUL-terminated, and one
\* more NUL, parse_enum_spec returns exactly those k strings in their order:
\* {0,0} gives the empty sequence and {'A',0,'B','C',0,0,0} gives A, BC.
C6_ParseReturnsTheEntries ==
    ppc = "done" =>
        /\ specs = entries
        /\ Len(specs) = Len(entries)
        /\ (table = <<0, 0>>) => specs = <<>>
        /\ (table = <<65, 0, 66, 67, 0, 0, 0>>) => specs = << <<65>>, <<66, 67>> >>

\* The set options of a ContextAttrs in the order of the list, each with
\* its key; the HRTF ones count only when the extension resolves.
EmittedOptions ==
    SelectSeq(<< [key |-> ALC_FREQUENCY, opt |-> attrs.frequency],
                 [key |-> ALC_REFRESH, opt |-> attrs.refresh],
                 [key |-> ALC_MONO_SOURCES, opt |-> attrs.mono_sources],
                 [key |-> ALC_STEREO_SOURCES, opt |-> attrs.stereo_sources],
                 [key |-> ALC_HRTF_SOFT, opt |-> IF hrtfExt.ok THEN attrs.soft_hrtf ELSE None],
                 [key |-> ALC_HRTF_ID_SOFT, opt |-> IF hrtfExt.ok THEN attrs.soft_hrtf_id ELSE None] >>,
              LAMBDA o : o.opt.some)

\* C10: for a supplied ContextAttrs the list make_attrs_vec returns is the
\* (key, value) pairs of the set options in the order frequency, refresh,
\* mono sources, stereo sources, HRTF flag, HRTF id, then a single 0;
\* frequency = 44100 alone gives [ALC_FREQUENCY, 44100, 0]; the HRTF pairs
\* appear only when the HRTF extension resolves.
C10_AttrsListIsTheSetOptions ==
    (atpc = "built" /\ attrs.some /\ attrsRes.ok) =>
        LET vec == attrsRes.vec
            n == Len(EmittedOptions)
        IN /\ Len(vec) = 2 * n + 1
           /\ vec[2 * n + 1] = 0
           /\ \A i \in 1 .. n :
                 /\ vec[2 * i - 1] = EmittedOptions[i].key
                 /\ vec[2 * i] = EmittedOptions[i].opt.v
           /\ (\E j \in 1 .. Len(vec) : vec[j] \in {ALC_HRTF_SOFT, ALC_HRTF_ID_SOFT})
                 => hrtfExt.ok
           /\ ( attrs.frequency = Some(44100) /\ ~attrs.refresh.some
                /\ ~attrs.mono_sources.some /\ ~attrs.stereo_sources.some
                /\ ~attrs.soft_hrtf.some /\ ~attrs.soft_hrtf_id.some )
                 => vec = <<ALC_FREQUENCY, 44100, 0>>

\* The list was built for frequency = 44100 and nothing else.
C10_Witness ==
    /\ atpc = "built" /\ attrs.some /\ attrsRes.ok
    /\ attrs.frequency = Some(44100)
    /\ Len(EmittedOptions) = 1
    /\ attrsRes.vec = <<ALC_FREQUENCY, 44100, 0>>

\* ------------------------------------------------------------------------
\* Further claims about the enumeration parser and the pause counter
\* ------------------------------------------------------------------------

\* The offset of the first byte of the first pair of consecutive NUL bytes.
FirstDoubleNul(mem) ==
    CHOOSE p \in 0 .. (Len(mem) - 2) :
        /\ mem[p + 1] = 0 /\ mem[p + 2] = 0
        /\ \A q \in 0 .. (p - 1) : ~(mem[q + 1] = 0 /\ mem[q + 2] = 0)

\* C19: on a well-formed table the scan reads no byte beyond the second
\* byte of the first pair of consecutive NULs, its index never passes the
\* pair, and it stops with its index on the first byte of the pair.
C19_ScanStopsAtTerminator ==
    /\ maxRead <= FirstDoubleNul(table) + 1
    /\ scan <= FirstDoubleNul(table)
    /\ ppc = "done" =>
          (scan = FirstDoubleNul(table) /\ maxRead = FirstDoubleNul(table) + 1)

\* The scan of a table of two strings that is followed by more memory has
\* stopped, having read up to the second NUL of the terminator.
C19_Witness ==
    /\ ppc = "done"
    /\ Len(entries) = 2
    /\ Len(table) > FirstDoubleNul(table) + 2
    /\ maxRead = FirstDoubleNul(table) + 1

\* C20: under every interleaving of constructions, rolled-back
\* constructions and drops the pause counter never goes below 0, and
\* whenever no construction or drop is in progress it equals the number of
\* live guards.
C20_CounterMatchesLiveGuards ==
    /\ pause_rc >= 0
    /\ AllIdle => pause_rc = LiveGuards

\* A failed construction was rolled back while another thread, which had
\* incremented the counter in between, holds the only guard.
C20_Witness ==
    /\ AllIdle
    /\ last.kind = "err_native"
    /\ LiveGuards = 1
    /\ pause_rc = 1

\* ------------------------------------------------------------------------
\* Claims about the queries and the error polls of Alto
\* ------------------------------------------------------------------------

\* C16: every native call of a public operation is followed by an error
\* poll, so that no code raised by it is left in the error slot when the
\* operation has returned, and an operation whose poll returned a code
\* other than no-error returns an error, never a success value.
C16_EveryNativeCallIsPolled ==
    /\ (apc = "idle" /\ VersionChecked) => nullErr = ALC_NO_ERROR
    /\ (apc = "idle" /\ call.op \in OpenOps \cup QueryOps /\ call.polled # ALC_NO_ERROR)
          => ret = Err(FromAlc(call.polled))

\* The enumerate-all constant and the standard constant of each query.
EnumAllConstant(op) ==
    IF op \in {"default_output", "default_capture"}
    THEN "ALC_DEFAULT_ALL_DEVICES_SPECIFIER" ELSE "ALC_ALL_DEVICES_SPECIFIER"

StandardConstant(op) ==
    CASE op = "default_output" -> "ALC_DEFAULT_DEVICE_SPECIFIER"
      [] op = "default_capture" -> "ALC_CAPTURE_DEFAULT_DEVICE_SPECIFIER"
      [] op = "enumerate_outputs" -> "ALC_DEVICE_SPECIFIER"
      [] op = "enumerate_captures" -> "ALC_CAPTURE_DEVICE_SPECIFIER"

EnumAllResolvable(op) == enumAllExt.ok /\ enumAllExt[EnumAllConstant(op)]

\* C17: each of default_output, default_capture, enumerate_outputs and
\* enumerate_captures queries the enumerate-all constant when the extension
\* and the constant resolve, and otherwise queries the standard constant
\* instead of failing on the missing capability.
C17_QueriesPreferEnumerateAll ==
    (apc = "idle" /\ call.op \in QueryOps) =>
        IF EnumAllResolvable(call.op)
        THEN call.query = EnumAllConstant(call.op)
        ELSE call.query = StandardConstant(call.op) /\ ret # Err(ExtensionNotPresent)

\* C18: the specifier open_capture passes to the native open and moves
\* into the CaptureDevice (its local spec) is, without a specifier argument,
\* the one default_capture returns, and with an argument that argument.
C18_OpenCaptureUsesDefaultCapture ==
    (call.op = "open_capture" /\ call.native) =>
        /\ call.arg = "none" =>
              /\ call.query = "ALC_CAPTURE_DEFAULT_DEVICE_SPECIFIER"
              /\ call.spec = "default capture"
        /\ call.arg # "none" => call.spec = call.arg

\* ------------------------------------------------------------------------
\* Claims about the device operations and the extension cache
\* ------------------------------------------------------------------------

\* C11: context creation is mutually exclusive: no two native
\* create-context calls are in progress at the same time.
C11_CreateContextMutuallyExclusive ==
    Cardinality({ t \in Threads : cpc[t] = "create" }) <= 1

C14_AttrsListTerminatedAndLive ==
    \A t \in Threads :
        cpc[t] \in {"create", "reset"} =>
            \/ ccall[t].ptr = "null"
            \/ /\ ccall[t].ptr = "live"
               /\ Len(ccall[t].list) % 2 = 1
               /\ ccall[t].list[Len(ccall[t].list)] = 0

\* C15: when building the attribute list fails inside new_context or
\* soft_reset the native call is not made and the operation returns an
\* error.
C15_AttrsFailureIsReturned ==
    /\ \A t \in Threads : ~ccall[t].built => cpc[t] \notin {"create", "reset", "poll"}
    /\ ~clast.built => ~clast.ret.ok

\* ------------------------------------------------------------------------
\* Claims about handles and about error polls under concurrency
\* ------------------------------------------------------------------------

\* C22: the open operations leak no native handle: once an open operation
\* has returned, every handle the native open call handed out is owned by a
\* device value that was returned to the caller, or has been closed.
C22_OpenLeaksNoHandle ==
    apc = "idle" =>
        \A h \in Handles : dev[h].nat = "open" => dev[h].value # "none"

\* What get_error returns for a native call that raised the code e.
OwnResult(e) == IF GetErrorIsOk(e) THEN Ok ELSE Err(FromAlc(e))

\* C21: when threads run operations concurrently on one device, each
\* operation that reached its error poll returns the outcome of its own
\* native call: success exactly when that call raised nothing, and
\* otherwise the typed error of the code that call raised.
C21_PollReturnsOwnError ==
    [][\A t \in Threads :
        (cpc[t] \in {"poll", "conn_poll"} /\ cpc'[t] = "idle")
            => clast'.ret = OwnResult(ccall[t].raised)]_vars

====
